---- MODULE Spec2Model ----
(***************************************************************************)
(* Route-finding engine of the university guide (TDA/funciones_llm.py).    *)
(*                                                                         *)
(* A Python str is modelled as a sequence of one-character strings, so     *)
(* that lower(), strip(), split(":") and the regular expression of         *)
(* extraer_origen_destino are computed character by character.  Longer     *)
(* fixed texts (the messages, the prompt template) are single elements of  *)
(* such a sequence; accents of the Spanish messages are dropped.           *)
(***************************************************************************)
EXTENDS Bags, FiniteSets, Integers, Sequences, TLC

VARIABLES nodos, usuario_input, topologia, pc, origen, destino, grafo,
          id_origen, id_destino, ruta_ids, prompt, excepcion, resultado,
          hist, respuesta_llm, inicio, fin, cola, visitados, linea

vars == <<nodos, usuario_input, topologia, pc, origen, destino, grafo,
          id_origen, id_destino, ruta_ids, prompt, excepcion, resultado,
          hist, respuesta_llm, inicio, fin, cola, visitados, linea>>

(***************************************************************************)
(* Bounds of the model.                                                    *)
(***************************************************************************)
MaxNodos == 2
MaxLineas == 2
MaxLineasGrafo == 3
MaxPeso == 3

(***************************************************************************)
(* Python values.                                                          *)
(***************************************************************************)
\* None where a str is expected; no str of the model equals it.
None == <<"<None>">>
\* None where a list of node ids is expected.
NoneRuta == <<None>>
\* Truth value of a str or of None: "if origen and destino", "if respuesta_llm".
Truthy(v) == v # None /\ v # <<>>
\* Truth value of a list or of None: "if ruta_ids".
TruthyRuta(r) == r # NoneRuta /\ r # <<>>

\* Outcome of a call: a returned value, or a raised exception with its
\* message (val then holds the local state the call had built).
Ok(v) == [exc |-> "", msg |-> <<>>, val |-> v]
Raise(clase, mensaje, v) == [exc |-> clase, msg |-> mensaje, val |-> v]

MinDe(S) == CHOOSE x \in S : \A y \in S : x <= y
MaxDe(S) == CHOOSE x \in S : \A y \in S : x >= y

(***************************************************************************)
(* str methods.                                                            *)
(***************************************************************************)
Mayusculas == ("X" :> "x") @@ ("Y" :> "y") @@ ("Z" :> "z") @@ ("A" :> "a")
              @@ ("D" :> "d") @@ ("E" :> "e")
CharLower(c) == IF c \in DOMAIN Mayusculas THEN Mayusculas[c] ELSE c
Lower(s) == [i \in 1..Len(s) |-> CharLower(s[i])]

Espacios == {" ", "\n", "\t"}
Strip(s) ==
    LET keep == {i \in 1..Len(s) : s[i] \notin Espacios}
    IN  IF keep = {} THEN <<>> ELSE SubSeq(s, MinDe(keep), MaxDe(keep))

RECURSIVE Split(_, _)
Split(s, sep) ==
    LET idx == {i \in 1..Len(s) : s[i] = sep}
    IN  IF idx = {} THEN <<s>>
        ELSE <<SubSeq(s, 1, MinDe(idx) - 1)>>
             \o Split(SubSeq(s, MinDe(idx) + 1, Len(s)), sep)

\* Code points of the characters that node ids are made of (str comparison).
Codigo == ("A" :> 65) @@ ("B" :> 66) @@ ("C" :> 67) @@ ("D" :> 68)
          @@ ("E" :> 69) @@ ("F" :> 70) @@ ("Z" :> 90)

RECURSIVE StrMenor(_, _)
StrMenor(a, b) ==
    IF a = <<>> THEN b # <<>>
    ELSE IF b = <<>> THEN FALSE
    ELSE IF a[1] = b[1] THEN StrMenor(Tail(a), Tail(b))
    ELSE Codigo[a[1]] < Codigo[b[1]]

RECURSIVE ListaMenor(_, _)
ListaMenor(p, q) ==
    IF p = <<>> THEN q # <<>>
    ELSE IF q = <<>> THEN FALSE
    ELSE IF p[1] = q[1] THEN ListaMenor(Tail(p), Tail(q))
    ELSE StrMenor(p[1], q[1])

(***************************************************************************)
(* float(peso): the model reads integer literals, optionally signed and    *)
(* surrounded by whitespace; any other text raises ValueError.             *)
(***************************************************************************)
Digitos == ("0" :> 0) @@ ("1" :> 1) @@ ("2" :> 2) @@ ("3" :> 3) @@ ("4" :> 4)
           @@ ("5" :> 5) @@ ("6" :> 6) @@ ("7" :> 7) @@ ("8" :> 8) @@ ("9" :> 9)

RECURSIVE ValorDigitos(_)
ValorDigitos(d) ==
    IF d = <<>> THEN 0
    ELSE 10 * ValorDigitos(SubSeq(d, 1, Len(d) - 1)) + Digitos[d[Len(d)]]

float(t) ==
    LET u == Strip(t)
        signo == u # <<>> /\ u[1] \in {"-", "+"}
        d == IF signo THEN Tail(u) ELSE u
    IN  IF d # <<>> /\ \A i \in 1..Len(d) : d[i] \in DOMAIN Digitos
        THEN Ok(IF signo /\ u[1] = "-" THEN 0 - ValorDigitos(d) ELSE ValorDigitos(d))
        ELSE Raise("ValueError", <<"could not convert string to float: ">> \o t, None)

(***************************************************************************)
(* cargar_grafo.  A dict is a function; d[k] = v is (k :> v) @@ d.         *)
(***************************************************************************)
GrafoInicial(ns) == [i \in {ns[k].id : k \in 1..Len(ns)} |-> <<>>]

\* Variant: the first weight given for a pair is kept (dict.setdefault).
CargarLineaPrimeraGana(g, conexion) ==
    LET campos == Split(Strip(conexion), ":")
    IN  IF Len(campos) # 3
        THEN Raise("ValueError", <<"values to unpack (expected 3)">>, g)
        ELSE LET o == campos[1]
                 d == campos[2]
                 p == float(campos[3])
             IN  IF p.exc # "" THEN Raise(p.exc, p.msg, g)
                 ELSE IF o \notin DOMAIN g THEN Raise("KeyError", <<"'">> \o o \o <<"'">>, g)
                 ELSE LET g1 == [g EXCEPT ![o] = @ @@ (d :> p.val)]
                      IN  IF d \notin DOMAIN g1 THEN Raise("KeyError", <<"'">> \o d \o <<"'">>, g1)
                          ELSE Ok([g1 EXCEPT ![d] = @ @@ (o :> p.val)])

\* Variant: an id of no node gets an entry of its own (a defaultdict).
CargarLineaSinClave(g, conexion) ==
    LET campos == Split(Strip(conexion), ":")
    IN  IF Len(campos) # 3
        THEN Raise("ValueError", <<"values to unpack (expected 3)">>, g)
        ELSE LET o == campos[1]
                 d == campos[2]
                 p == float(campos[3])
             IN  IF p.exc # "" THEN Raise(p.exc, p.msg, g)
                 ELSE LET g0 == IF o \in DOMAIN g THEN g ELSE (o :> <<>>) @@ g
                          g1 == [g0 EXCEPT ![o] = (d :> p.val) @@ @]
                          g2 == IF d \in DOMAIN g1 THEN g1 ELSE (d :> <<>>) @@ g1
                      IN  Ok([g2 EXCEPT ![d] = (o :> p.val) @@ @])

\* One iteration of "for conexion in topologia".
CargarLinea(g, conexion) ==
    LET campos == Split(Strip(conexion), ":")
    IN  IF Len(campos) # 3
        THEN Raise("ValueError", <<"values to unpack (expected 3)">>, g)
        ELSE LET o == campos[1]
                 d == campos[2]
                 p == float(campos[3])
             IN  IF p.exc # "" THEN Raise(p.exc, p.msg, g)
                 ELSE IF o \notin DOMAIN g THEN Raise("KeyError", <<"'">> \o o \o <<"'">>, g)
                 ELSE LET g1 == [g EXCEPT ![o] = (d :> p.val) @@ @]
                      IN  IF d \notin DOMAIN g1 THEN Raise("KeyError", <<"'">> \o d \o <<"'">>, g1)
                          ELSE Ok([g1 EXCEPT ![d] = (o :> p.val) @@ @])

RECURSIVE CargarDesde(_, _, _)
CargarDesde(g, topo, i) ==
    IF i > Len(topo) THEN Ok(g)
    ELSE LET r == CargarLinea(g, topo[i])
         IN  IF r.exc # "" THEN r ELSE CargarDesde(r.val, topo, i + 1)

cargar_grafo(ns, topo) == CargarDesde(GrafoInicial(ns), topo, 1)

(***************************************************************************)
(* dijkstra.  The heap is a bag of entries <<costo, actual, camino>>;      *)
(* heappop removes the least entry in Python's tuple order.                *)
(***************************************************************************)
EntradaMenor(e, f) ==
    \/ e[1] < f[1]
    \/ e[1] = f[1] /\ StrMenor(e[2], f[2])
    \/ e[1] = f[1] /\ e[2] = f[2] /\ ListaMenor(e[3], f[3])

\* Variant: the greatest entry is removed (a plain list.pop() of a sorted list).
heappopMayor(h) ==
    CHOOSE e \in BagToSet(h) : \A f \in BagToSet(h) : f = e \/ EntradaMenor(f, e)

heappop(h) ==
    CHOOSE e \in BagToSet(h) : \A f \in BagToSet(h) : f = e \/ EntradaMenor(e, f)

\* Variant: the test on visitados is inverted.
VecinosVisitados(g, actual, vis) == {v \in DOMAIN g[actual] : v \in vis}

\* The neighbours pushed after "actual" was settled: "if vecino not in visitados".
Vecinos(g, actual, vis) == {v \in DOMAIN g[actual] : v \notin vis}

\* One iteration of "while cola"; estado tells how the iteration ends.
DijkstraPaso(g, meta, h, vis) ==
    LET e == heappop(h)
        resto == h (-) SetToBag({e})
        costo == e[1]
        actual == e[2]
        camino == e[3] \o <<e[2]>>
        vis1 == vis \cup {actual}
    IN  IF actual \in vis
        THEN [estado |-> "continue", cola |-> resto, visitados |-> vis, camino |-> NoneRuta]
        ELSE IF actual = meta
        THEN [estado |-> "return", cola |-> resto, visitados |-> vis1, camino |-> camino]
        ELSE IF actual \notin DOMAIN g
        THEN [estado |-> "KeyError", cola |-> resto, visitados |-> vis1, camino |-> NoneRuta]
        ELSE [estado |-> "push",
              cola |-> resto (+) SetToBag({<<costo + g[actual][v], v, camino>> :
                                             v \in Vecinos(g, actual, vis1)}),
              visitados |-> vis1, camino |-> NoneRuta]

RECURSIVE DijkstraBucle(_, _, _, _)
DijkstraBucle(g, meta, h, vis) ==
    IF h = EmptyBag THEN Ok(NoneRuta)
    ELSE LET s == DijkstraPaso(g, meta, h, vis)
         IN  IF s.estado = "return" THEN Ok(s.camino)
             ELSE IF s.estado = "KeyError"
             THEN Raise("KeyError", <<"'">> \o heappop(h)[2] \o <<"'">>, NoneRuta)
             ELSE DijkstraBucle(g, meta, s.cola, s.visitados)

ColaInicial(o) == SetToBag({<<0, o, <<>>>>})

dijkstra(g, o, meta) == DijkstraBucle(g, meta, ColaInicial(o), {})

(***************************************************************************)
(* obtener_id_nodo, extraer_origen_destino.                                *)
(***************************************************************************)
\* Variant: the names are compared as written, without lower().
obtener_id_nodo_exacto(nombre, ns) ==
    LET idx == {k \in 1..Len(ns) : ns[k].nombre = nombre}
    IN  IF idx = {} THEN None ELSE ns[MinDe(idx)].id

obtener_id_nodo(nombre, ns) ==
    LET idx == {k \in 1..Len(ns) : Lower(ns[k].nombre) = Lower(nombre)}
    IN  IF idx = {} THEN None ELSE ns[MinDe(idx)].id

\* re.search(r"de (.+?) a (.+)", s): "." is any character but a newline.
\* Cortes(s, i): where " a " can start when "de " starts at i.
Cortes(s, i) ==
    {j \in (i + 4)..(Len(s) - 3) :
        /\ s[j] = " " /\ s[j + 1] = "a" /\ s[j + 2] = " "
        /\ s[j + 3] # "\n"
        /\ \A k \in (i + 3)..(j - 1) : s[k] # "\n"}

Comienzos(s) ==
    {i \in 1..(Len(s) - 2) :
        s[i] = "d" /\ s[i + 1] = "e" /\ s[i + 2] = " " /\ Cortes(s, i) # {}}

FinDeLinea(s, j) ==
    LET nl == {k \in j..Len(s) : s[k] = "\n"}
    IN  IF nl = {} THEN Len(s) ELSE MinDe(nl) - 1

\* Variant: the first group is greedy, "de (.+) a (.+)".
re_search_codicioso(s) ==
    IF Comienzos(s) = {} THEN [match |-> FALSE, g1 |-> <<>>, g2 |-> <<>>]
    ELSE LET i == MinDe(Comienzos(s))
             j == MaxDe(Cortes(s, i))
         IN  [match |-> TRUE,
              g1 |-> SubSeq(s, i + 3, j - 1),
              g2 |-> SubSeq(s, j + 3, FinDeLinea(s, j + 3))]

\* Leftmost match, lazy first group, greedy second group.
re_search(s) ==
    IF Comienzos(s) = {} THEN [match |-> FALSE, g1 |-> <<>>, g2 |-> <<>>]
    ELSE LET i == MinDe(Comienzos(s))
             j == MinDe(Cortes(s, i))
         IN  [match |-> TRUE,
              g1 |-> SubSeq(s, i + 3, j - 1),
              g2 |-> SubSeq(s, j + 3, FinDeLinea(s, j + 3))]

NombreValido(nombre, ns) ==
    \E k \in 1..Len(ns) : Lower(ns[k].nombre) = Lower(nombre)

extraer_origen_destino(consulta, ns) ==
    LET m == re_search(Lower(consulta))
        o == Strip(m.g1)
        d == Strip(m.g2)
    IN  IF m.match /\ NombreValido(o, ns) /\ NombreValido(d, ns)
        THEN <<o, d>>
        ELSE <<None, None>>

(***************************************************************************)
(* generar_descripcion_ruta, construir_prompt_consulta.                    *)
(***************************************************************************)
RECURSIVE PasosDesde(_, _)
PasosDesde(r, i) ==
    IF i > Len(r) - 1 THEN <<>>
    ELSE <<"- Desde ">> \o r[i] \o <<", dirigete hacia ">> \o r[i + 1]
         \o <<".\n">> \o PasosDesde(r, i + 1)

generar_descripcion_ruta(ruta_nombres) ==
    <<"Para llegar a tu destino, sigue estos pasos:\n">>
    \o PasosDesde(ruta_nombres, 1)
    \o <<"Has llegado a tu destino!">>

\* The loop of procesar_consulta that maps the ids of the route to names.
RECURSIVE NombresDeRuta(_, _)
NombresDeRuta(ruta, ns) ==
    IF ruta = <<>> THEN <<>>
    ELSE LET idx == {k \in 1..Len(ns) : ns[k].id = ruta[1]}
         IN  (IF idx = {} THEN <<>> ELSE <<ns[MinDe(idx)].nombre>>)
             \o NombresDeRuta(Tail(ruta), ns)

RECURSIVE Join(_, _)
Join(lista, sep) ==
    IF lista = <<>> THEN <<>>
    ELSE IF Len(lista) = 1 THEN lista[1]
    ELSE lista[1] \o sep \o Join(Tail(lista), sep)

HUMAN_PROMPT == "\n\nHuman:"
AI_PROMPT == "\n\nAssistant:"

construir_prompt_consulta(consulta, ns) ==
    <<HUMAN_PROMPT, " Eres un asistente de navegacion amable para una universidad. ",
      "Puedes guiar al usuario desde un lugar de origen a su destino basandote en esta lista de ubicaciones: ">>
    \o Join([k \in 1..Len(ns) |-> ns[k].nombre], <<",", " ">>)
    \o <<". Por favor, proporciona instrucciones detalladas sobre como llegar, como en este ejemplo:\n\n",
         "Ejemplo: 'Primero, sal de Coordinacion de deportes hacia Canchas futbol voleibol pista. Luego, dirigete hacia Artes. Por ultimo, continua hasta INIAT.'\n\n",
         "Consulta del usuario: ">>
    \o consulta
    \o <<"\n\n", AI_PROMPT>>

MSG_NO_RUTA == <<"No se encontro una ruta entre los lugares especificados.">>
MSG_NO_IDENTIFICADO == <<"No pude identificar correctamente los lugares en tu consulta.">>
MSG_NO_ENTENDI == <<"Lo siento, no pude entender tu solicitud.">>
MSG_ERROR == <<"Error procesando la consulta: ">>
MSG_SIN_CLAVE == <<"No se encontro la clave API. Configura 'ANTHROPIC_API_KEY' como variable de entorno.">>

(***************************************************************************)
(* Inputs.  A catalog is a list of distinct nodes of NodosPool; the pool   *)
(* holds a name in upper case that equals another one up to case, an empty *)
(* id, an empty name, and names that contain "de " and " a ".              *)
(***************************************************************************)
NodosPool ==
    { [id |-> <<"A">>, nombre |-> <<"x">>],
      [id |-> <<"B">>, nombre |-> <<"d", "e", " ", "y">>],
      [id |-> <<"C">>, nombre |-> <<"X">>],
      [id |-> <<>>,    nombre |-> <<"z">>],
      [id |-> <<"D">>, nombre |-> <<>>],
      [id |-> <<"E">>, nombre |-> <<"x", " ", "a", " ", "y">>] }

Catalogos ==
    {c \in UNION {[1..n -> NodosPool] : n \in 1..MaxNodos} :
        \A i, j \in 1..Len(c) : i # j => c[i] # c[j]}

\* The names a query may carry: those of the pool and one of no node.
NombresConsulta == {n.nombre : n \in NodosPool} \cup {<<"w">>}

Plantilla(P, Q) ==
    <<"q", "u", "i", "e", "r", "o", " ", "i", "r", " ", "d", "e", " ">>
    \o P \o <<" ", "a", " ">> \o Q

ConsultasLibres ==
    { <<"h", "o", "l", "a">>,
      <<"d", "e", " ", " ", " ", "a", " ", "x">>,
      <<"D", "E", " ", "x", " ", "A", " ", "d", "e", " ", "y">> }

Consultas ==
    {Plantilla(P, Q) : P \in NombresConsulta, Q \in NombresConsulta}
    \cup ConsultasLibres

\* Lines of topologia.txt as readlines() gives them.
LineasConsulta ==
    { <<"A", ":", "B", ":", "1", "\n">>,
      <<"C", ":", "A", ":", "2", "\n">>,
      <<"A", ":", "Z", ":", "1", "\n">>,
      <<"A", ":", "B", "\n">> }

Topologias == UNION {[1..n -> LineasConsulta] : n \in 0..MaxLineas}

\* os.getenv("ANTHROPIC_API_KEY"): unset, empty or set.
ClavesAPI == {None, <<>>, <<"k">>}
\* respuesta.completion, before strip().
Completions == {<<>>, <<" ">>, <<" ", "o", "k", "\n">>}

SinExcepcion == [clase |-> "", msg |-> <<>>]
SinResultado == [tipo |-> "", val |-> None]
HistInicial == [abrir |-> 0, dijkstra |-> 0, llm |-> 0, create |-> 0]

\* Variant: "except ValueError".
AtrapaSoloValueError(clase) == clase = "ValueError"

\* "except Exception": the classes the handler catches.
Atrapa(clase) ==
    clase \in {"ValueError", "KeyError", "FileNotFoundError", "APIError"}

\* Variant: the answer is returned without the test for an empty one.
RespuestaSinPrueba(r) == r

\* "if respuesta_llm: return respuesta_llm / else: return ..."
RespuestaFinal(r) == IF Truthy(r) THEN r ELSE MSG_NO_ENTENDI

(***************************************************************************)
(* procesar_consulta, one action per statement of its body.                *)
(***************************************************************************)
Programa == <<nodos, usuario_input>>
Busqueda == <<inicio, fin, cola, visitados, linea>>

Init ==
    /\ nodos \in Catalogos
    /\ usuario_input \in Consultas
    /\ topologia = <<>>
    /\ pc = "inicio"
    /\ origen = None /\ destino = None
    /\ grafo = <<>>
    /\ id_origen = None /\ id_destino = None
    /\ ruta_ids = NoneRuta
    /\ prompt = <<>>
    /\ excepcion = SinExcepcion
    /\ resultado = SinResultado
    /\ hist = HistInicial
    /\ respuesta_llm = None
    /\ inicio = None /\ fin = None
    /\ cola = EmptyBag /\ visitados = {}
    /\ linea = 0

Extraer ==
    /\ pc = "inicio"
    /\ LET r == extraer_origen_destino(usuario_input, nodos)
       IN  /\ origen' = r[1]
           /\ destino' = r[2]
           /\ pc' = IF Truthy(r[1]) /\ Truthy(r[2]) THEN "abrir" ELSE "prompt"
    /\ UNCHANGED <<Programa, Busqueda, respuesta_llm, topologia, grafo, id_origen, id_destino,
                   ruta_ids, prompt, excepcion, resultado, hist>>

AbrirTopologia ==
    /\ pc = "abrir"
    /\ hist' = [hist EXCEPT !.abrir = @ + 1]
    /\ \/ /\ excepcion' = [clase |-> "FileNotFoundError",
                           msg |-> <<"[Errno 2] No such file or directory: 'topologia.txt'">>]
          /\ pc' = "except"
          /\ UNCHANGED topologia
       \/ /\ \E t \in Topologias : topologia' = t
          /\ pc' = "cargar"
          /\ UNCHANGED excepcion
    /\ UNCHANGED <<Programa, Busqueda, respuesta_llm, origen, destino, grafo, id_origen,
                   id_destino, ruta_ids, prompt, resultado>>

CargarGrafo ==
    /\ pc = "cargar"
    /\ LET r == cargar_grafo(nodos, topologia)
       IN  IF r.exc # ""
           THEN /\ excepcion' = [clase |-> r.exc, msg |-> r.msg]
                /\ pc' = "except"
                /\ UNCHANGED grafo
           ELSE /\ grafo' = r.val
                /\ pc' = "ids"
                /\ UNCHANGED excepcion
    /\ UNCHANGED <<Programa, Busqueda, respuesta_llm, topologia, origen, destino, id_origen,
                   id_destino, ruta_ids, prompt, resultado, hist>>

ObtenerIds ==
    /\ pc = "ids"
    /\ id_origen' = obtener_id_nodo(origen, nodos)
    /\ id_destino' = obtener_id_nodo(destino, nodos)
    /\ IF Truthy(id_origen') /\ Truthy(id_destino')
       THEN pc' = "dijkstra" /\ UNCHANGED resultado
       ELSE /\ pc' = "done"
            /\ resultado' = [tipo |-> "return", val |-> MSG_NO_IDENTIFICADO]
    /\ UNCHANGED <<Programa, Busqueda, respuesta_llm, topologia, origen, destino, grafo,
                   ruta_ids, prompt, excepcion, hist>>

BuscarRuta ==
    /\ pc = "dijkstra"
    /\ hist' = [hist EXCEPT !.dijkstra = @ + 1]
    /\ LET r == dijkstra(grafo, id_origen, id_destino)
       IN  IF r.exc # ""
           THEN /\ excepcion' = [clase |-> r.exc, msg |-> r.msg]
                /\ pc' = "except"
                /\ UNCHANGED <<ruta_ids, resultado>>
           ELSE /\ ruta_ids' = r.val
                /\ UNCHANGED excepcion
                /\ IF TruthyRuta(r.val)
                   THEN pc' = "narrar" /\ UNCHANGED resultado
                   ELSE /\ pc' = "done"
                        /\ resultado' = [tipo |-> "return", val |-> MSG_NO_RUTA]
    /\ UNCHANGED <<Programa, Busqueda, respuesta_llm, topologia, origen, destino, grafo,
                   id_origen, id_destino, prompt>>

Narrar ==
    /\ pc = "narrar"
    /\ resultado' = [tipo |-> "return",
                     val |-> generar_descripcion_ruta(NombresDeRuta(ruta_ids, nodos))]
    /\ pc' = "done"
    /\ UNCHANGED <<Programa, Busqueda, respuesta_llm, topologia, origen, destino, grafo,
                   id_origen, id_destino, ruta_ids, prompt, excepcion, hist>>

ConstruirPrompt ==
    /\ pc = "prompt"
    /\ prompt' = construir_prompt_consulta(usuario_input, nodos)
    /\ pc' = "llm"
    /\ UNCHANGED <<Programa, Busqueda, respuesta_llm, topologia, origen, destino, grafo,
                   id_origen, id_destino, ruta_ids, excepcion, resultado, hist>>

\* ejecutar_llm: configurar_cliente, then completions.create, then strip().
EjecutarLLM ==
    /\ pc = "llm"
    /\ \E api_key \in ClavesAPI :
          IF ~Truthy(api_key)
          THEN /\ excepcion' = [clase |-> "ValueError", msg |-> MSG_SIN_CLAVE]
               /\ hist' = [hist EXCEPT !.llm = @ + 1]
               /\ pc' = "except"
               /\ UNCHANGED respuesta_llm
          ELSE \/ /\ excepcion' = [clase |-> "APIError", msg |-> <<"Connection error.">>]
                  /\ hist' = [hist EXCEPT !.llm = @ + 1, !.create = @ + 1]
                  /\ pc' = "except"
                  /\ UNCHANGED respuesta_llm
               \/ /\ \E c \in Completions : respuesta_llm' = Strip(c)
                  /\ hist' = [hist EXCEPT !.llm = @ + 1, !.create = @ + 1]
                  /\ pc' = "respuesta"
                  /\ UNCHANGED excepcion
    /\ UNCHANGED <<Programa, Busqueda, topologia, origen, destino, grafo,
                   id_origen, id_destino, ruta_ids, prompt, resultado>>

Responder ==
    /\ pc = "respuesta"
    /\ resultado' = [tipo |-> "return", val |-> RespuestaFinal(respuesta_llm)]
    /\ pc' = "done"
    /\ UNCHANGED <<Programa, Busqueda, respuesta_llm, topologia, origen, destino, grafo,
                   id_origen, id_destino, ruta_ids, prompt, excepcion, hist>>

\* "except Exception as e: return f'Error procesando la consulta: {str(e)}'";
\* an exception the clause does not catch leaves the function.
Except ==
    /\ pc = "except"
    /\ resultado' = IF Atrapa(excepcion.clase)
                    THEN [tipo |-> "return", val |-> MSG_ERROR \o excepcion.msg]
                    ELSE [tipo |-> "raise", val |-> excepcion.msg]
    /\ pc' = "done"
    /\ UNCHANGED <<Programa, Busqueda, respuesta_llm, topologia, origen, destino, grafo,
                   id_origen, id_destino, ruta_ids, prompt, excepcion, hist>>

Next ==
    \/ Extraer \/ AbrirTopologia \/ CargarGrafo \/ ObtenerIds \/ BuscarRuta
    \/ Narrar \/ ConstruirPrompt \/ EjecutarLLM \/ Responder \/ Except

Spec == Init /\ [][Next]_vars

(***************************************************************************)
(* cargar_grafo alone, one action per iteration of its loop, over a        *)
(* catalog of three nodes and topologies that repeat a pair, reverse it,   *)
(* hold a self-loop, name an unknown id or are malformed.                  *)
(***************************************************************************)
NodosGrafo ==
    << [id |-> <<"A">>, nombre |-> <<"x">>],
       [id |-> <<"B">>, nombre |-> <<"y">>],
       [id |-> <<"C">>, nombre |-> <<"z">>] >>

LineasCarga ==
    { <<"A", ":", "B", ":", "1", "\n">>,
      <<"A", ":", "B", ":", "2", "\n">>,
      <<"B", ":", "A", ":", "3", "\n">>,
      <<"A", ":", "A", ":", "1", "\n">>,
      <<"B", ":", "C", ":", "2", "\n">>,
      <<"A", ":", "Z", ":", "1", "\n">>,
      <<"Z", ":", "A", ":", "1", "\n">>,
      <<"A", ":", "B", "\n">>,
      <<"A", ":", "B", ":", "x", "\n">> }

TopologiasCarga == UNION {[1..n -> LineasCarga] : n \in 0..MaxLineasGrafo}

Consulta == <<usuario_input, origen, destino, id_origen, id_destino, ruta_ids,
              prompt, resultado, hist, respuesta_llm>>

InitCarga ==
    /\ nodos = NodosGrafo
    /\ topologia \in TopologiasCarga
    /\ pc = "c_inicio"
    /\ grafo = <<>>
    /\ linea = 0
    /\ excepcion = SinExcepcion
    /\ usuario_input = <<>>
    /\ origen = None /\ destino = None
    /\ id_origen = None /\ id_destino = None
    /\ ruta_ids = NoneRuta
    /\ prompt = <<>>
    /\ resultado = SinResultado
    /\ hist = HistInicial
    /\ respuesta_llm = None
    /\ inicio = None /\ fin = None
    /\ cola = EmptyBag /\ visitados = {}

\* grafo = {nodo["id"]: {} for nodo in nodos}
CargarInicio ==
    /\ pc = "c_inicio"
    /\ grafo' = GrafoInicial(nodos)
    /\ linea' = 1
    /\ pc' = "c_bucle"
    /\ UNCHANGED <<Consulta, nodos, topologia, excepcion, inicio, fin, cola, visitados>>

\* for conexion in topologia: ...
CargarIteracion ==
    /\ pc = "c_bucle"
    /\ linea <= Len(topologia)
    /\ LET r == CargarLinea(grafo, topologia[linea])
       IN  /\ grafo' = r.val
           /\ IF r.exc # ""
              THEN /\ excepcion' = [clase |-> r.exc, msg |-> r.msg]
                   /\ pc' = "c_raise"
                   /\ UNCHANGED linea
              ELSE /\ linea' = linea + 1
                   /\ UNCHANGED <<pc, excepcion>>
    /\ UNCHANGED <<Consulta, nodos, topologia, inicio, fin, cola, visitados>>

\* return grafo
CargarFin ==
    /\ pc = "c_bucle"
    /\ linea > Len(topologia)
    /\ pc' = "c_return"
    /\ UNCHANGED <<Consulta, nodos, topologia, grafo, linea, excepcion,
                   inicio, fin, cola, visitados>>

NextCarga == CargarInicio \/ CargarIteracion \/ CargarFin

SpecCarga == InitCarga /\ [][NextCarga]_vars

(***************************************************************************)
(* dijkstra alone, one action per iteration of its loop, over the graphs   *)
(* cargar_grafo builds from edge lists with weights 1..MaxPeso.            *)
(***************************************************************************)
IdsGrafo == {NodosGrafo[k].id : k \in 1..Len(NodosGrafo)}

TextoDe(w) == <<CHOOSE c \in DOMAIN Digitos : Digitos[c] = w>>

Linea(o, d, w) == o \o <<":">> \o d \o <<":">> \o TextoDe(w) \o <<"\n">>

AristasGrafo ==
    {Linea(p[1], p[2], w) :
        p \in {q \in IdsGrafo \X IdsGrafo : ~StrMenor(q[2], q[1])},
        w \in 1..MaxPeso}

TopologiasGrafo == UNION {[1..n -> AristasGrafo] : n \in 0..MaxLineasGrafo}

Grafos == {cargar_grafo(NodosGrafo, t).val : t \in TopologiasGrafo}

InitDijkstra ==
    /\ nodos = NodosGrafo
    /\ topologia = <<>>
    /\ grafo \in Grafos
    /\ inicio \in IdsGrafo
    /\ fin \in IdsGrafo
    /\ pc = "d_inicio"
    /\ cola = EmptyBag
    /\ visitados = {}
    /\ ruta_ids = NoneRuta
    /\ linea = 0
    /\ excepcion = SinExcepcion
    /\ usuario_input = <<>>
    /\ origen = None /\ destino = None
    /\ id_origen = None /\ id_destino = None
    /\ prompt = <<>>
    /\ resultado = SinResultado
    /\ hist = HistInicial
    /\ respuesta_llm = None

Fijas == <<nodos, topologia, grafo, inicio, fin, linea, usuario_input, origen,
           destino, id_origen, id_destino, prompt, resultado, hist, respuesta_llm>>

\* cola = [(0, inicio, [])]; visitados = set()
DijkstraInicio ==
    /\ pc = "d_inicio"
    /\ cola' = ColaInicial(inicio)
    /\ visitados' = {}
    /\ pc' = "d_bucle"
    /\ UNCHANGED <<Fijas, ruta_ids, excepcion>>

\* One iteration of "while cola".
DijkstraIteracion ==
    /\ pc = "d_bucle"
    /\ cola # EmptyBag
    /\ LET s == DijkstraPaso(grafo, fin, cola, visitados)
       IN  /\ cola' = s.cola
           /\ visitados' = s.visitados
           /\ ruta_ids' = s.camino
           /\ pc' = IF s.estado = "return" THEN "d_return"
                    ELSE IF s.estado = "KeyError" THEN "d_raise"
                    ELSE "d_bucle"
           /\ excepcion' = IF s.estado = "KeyError"
                           THEN [clase |-> "KeyError", msg |-> <<"'">> \o heappop(cola)[2] \o <<"'">>]
                           ELSE excepcion
    /\ UNCHANGED Fijas

\* The frontier is empty: "return None".
DijkstraAgotada ==
    /\ pc = "d_bucle"
    /\ cola = EmptyBag
    /\ ruta_ids' = NoneRuta
    /\ pc' = "d_return"
    /\ UNCHANGED <<Fijas, cola, visitados, excepcion>>

NextDijkstra == DijkstraInicio \/ DijkstraIteracion \/ DijkstraAgotada

\* The loop is sequential code: an iteration that can run does run.
SpecDijkstra == InitDijkstra /\ [][NextDijkstra]_vars /\ WF_vars(NextDijkstra)

(***************************************************************************)
(* Notions the properties are stated with.                                 *)
(***************************************************************************)
SinRepetir(p) == \A i, j \in 1..Len(p) : i # j => p[i] # p[j]

EsCamino(g, p) == \A i \in 1..(Len(p) - 1) : p[i + 1] \in DOMAIN g[p[i]]

\* Every simple path of g from s to t, by enumeration.
CaminosSimples(g, s, t) ==
    {p \in UNION {[1..n -> DOMAIN g] : n \in 1..Cardinality(DOMAIN g)} :
        p[1] = s /\ p[Len(p)] = t /\ SinRepetir(p) /\ EsCamino(g, p)}

Alcanzable(g, s, t) == CaminosSimples(g, s, t) # {}

RECURSIVE PesoDesde(_, _, _)
PesoDesde(g, p, i) ==
    IF i >= Len(p) THEN 0 ELSE g[p[i]][p[i + 1]] + PesoDesde(g, p, i + 1)

Peso(g, p) == PesoDesde(g, p, 1)

Campos(l) == Split(Strip(l), ":")

IdsDe(ns) == {ns[k].id : k \in 1..Len(ns)}

NombresDe(ns) == {ns[k].nombre : k \in 1..Len(ns)}

Contiene(t, sub) ==
    \E i \in 0..(Len(t) - Len(sub)) : SubSeq(t, i + 1, i + Len(sub)) = sub

(***************************************************************************)
(* C1: when the goal is reachable from the start, dijkstra returns a       *)
(* simple path of the graph from start to goal whose weight is the least   *)
(* weight of all simple paths from start to goal.                          *)
(***************************************************************************)
C1_RutaMinima ==
    (pc = "d_return" /\ Alcanzable(grafo, inicio, fin)) =>
        /\ ruta_ids \in CaminosSimples(grafo, inicio, fin)
        /\ \A p \in CaminosSimples(grafo, inicio, fin) :
              Peso(grafo, ruta_ids) <= Peso(grafo, p)

\* A route through a third node was returned although a direct edge exists.
C1_Testigo ==
    /\ pc = "d_return"
    /\ Len(ruta_ids) = 3
    /\ fin \in DOMAIN grafo[inicio]

(***************************************************************************)
(* C7: the loop of dijkstra terminates, and it returns None exactly when   *)
(* the goal is not reachable from the start.                               *)
(***************************************************************************)
C7_SinRuta ==
    /\ [](pc = "d_return" =>
            (ruta_ids = NoneRuta <=> ~Alcanzable(grafo, inicio, fin)))
    /\ <>(pc = "d_return")

\* None was returned after the search settled the start's whole component.
C7_Testigo ==
    /\ pc = "d_return"
    /\ ruta_ids = NoneRuta
    /\ Cardinality(visitados) >= 2

(***************************************************************************)
(* C5, as stated: in the graph cargar_grafo returns, every edge line       *)
(* A:B:w of the topology has graph[A][B] = graph[B][A] = w.                *)
(***************************************************************************)
C5_CadaLinea ==
    pc = "c_return" =>
        \A i \in 1..Len(topologia) :
            LET c == Campos(topologia[i])
            IN  /\ grafo[c[1]][c[2]] = float(c[3]).val
                /\ grafo[c[2]][c[1]] = float(c[3]).val

MismoPar(c, d) == {c[1], c[2]} = {d[1], d[2]}

(***************************************************************************)
(* C5, amended: the returned graph is symmetric on every edge line A:B:w,  *)
(* and graph[A][B] = graph[B][A] = w for the last line that names the      *)
(* pair {A, B}.                                                            *)
(***************************************************************************)
C5_UltimaLineaGana ==
    pc = "c_return" =>
        \A i \in 1..Len(topologia) :
            LET c == Campos(topologia[i])
            IN  /\ grafo[c[1]][c[2]] = grafo[c[2]][c[1]]
                /\ (\A j \in (i + 1)..Len(topologia) :
                        ~MismoPar(c, Campos(topologia[j])))
                   => grafo[c[1]][c[2]] = float(c[3]).val

\* A graph was returned for a topology that names one pair twice, in both
\* directions and with two weights.
C5_Testigo ==
    /\ pc = "c_return"
    /\ \E i, j \in 1..Len(topologia) :
          /\ i < j
          /\ Campos(topologia[i])[1] = Campos(topologia[j])[2]
          /\ Campos(topologia[i])[2] = Campos(topologia[j])[1]
          /\ Campos(topologia[i])[1] # Campos(topologia[i])[2]
          /\ Campos(topologia[i])[3] # Campos(topologia[j])[3]

(***************************************************************************)
(* C2: procesar_consulta ends by returning a string, whatever fails in it. *)
(***************************************************************************)
C2_SiempreCadena ==
    pc = "done" =>
        /\ resultado.tipo = "return"
        /\ resultado.val # None
        /\ resultado.val \in Seq(STRING)

\* The call ended after an edge of the topology named an unknown id.
C2_Testigo ==
    /\ pc = "done"
    /\ excepcion.clase = "KeyError"

\* An edge line (three fields) that names an id of no node of the catalog.
LineaDesconocida(l, ns) ==
    /\ Len(Campos(l)) = 3
    /\ Campos(l)[1] \notin IdsDe(ns) \/ Campos(l)[2] \notin IdsDe(ns)

TieneDesconocido ==
    \E i \in 1..Len(topologia) : LineaDesconocida(topologia[i], nodos)

(***************************************************************************)
(* C9: when an edge line of the topology names an id of no node, the load  *)
(* fails with an error: no graph is returned, the path search is not run   *)
(* and procesar_consulta returns the processing-error string.              *)
(***************************************************************************)
C9_IdDesconocido ==
    TieneDesconocido =>
        /\ pc \in {"cargar", "except", "done"}
        /\ grafo = <<>>
        /\ hist.dijkstra = 0
        /\ pc \in {"except", "done"} => excepcion.clase \in {"KeyError", "ValueError"}
        /\ pc = "done" =>
              resultado = [tipo |-> "return", val |-> MSG_ERROR \o excepcion.msg]

\* The second line names an unknown id after a first line that loaded.
C9_Testigo ==
    /\ pc = "done"
    /\ Len(topologia) = 2
    /\ ~LineaDesconocida(topologia[1], nodos)
    /\ LineaDesconocida(topologia[2], nodos)
    /\ excepcion.clase = "KeyError"

\* The states ObtenerIds has been through.
DespuesDeIds ==
    \/ pc \in {"dijkstra", "narrar"}
    \/ pc = "done" /\ hist.abrir = 1 /\ excepcion.clase = ""

\* id is the id of the first node of ns whose name is nombre up to case.
EsIdDelPrimero(id, nombre, ns) ==
    \E k \in 1..Len(ns) :
        /\ Lower(ns[k].nombre) = Lower(nombre)
        /\ \A j \in 1..(k - 1) : Lower(ns[j].nombre) # Lower(nombre)
        /\ id = ns[k].id

(***************************************************************************)
(* C10: after a successful extraction each name resolves to the id of the  *)
(* first node that matches it up to case; "places not recognized" is       *)
(* returned only when such an id is empty, never in a catalog whose ids    *)
(* are all non-empty.                                                      *)
(***************************************************************************)
C10_ExtraccionImplicaId ==
    /\ DespuesDeIds =>
          /\ EsIdDelPrimero(id_origen, origen, nodos)
          /\ EsIdDelPrimero(id_destino, destino, nodos)
    /\ resultado.val = MSG_NO_IDENTIFICADO =>
          /\ DespuesDeIds
          /\ id_origen = <<>> \/ id_destino = <<>>
          /\ <<>> \in IdsDe(nodos)

\* "places not recognized" was returned.
C10_Testigo ==
    /\ pc = "done"
    /\ resultado.val = MSG_NO_IDENTIFICADO

NombreLimpio(P) == P # <<>> /\ Strip(P) = P

\* P, followed by the blank of the template, holds no " a " after its first
\* character, up to case.
SinSeparador(P) ==
    LET s == Lower(P) \o <<" ">>
    IN  \A j \in 2..(Len(s) - 2) : ~(s[j] = " " /\ s[j + 1] = "a" /\ s[j + 2] = " ")

C4_RamaAlterna ==
    pc = "done" =>
        IF <<origen, destino>> = <<None, None>>
        THEN /\ hist.llm = 1
             /\ hist.abrir = 0
             /\ hist.dijkstra = 0
             /\ Contiene(prompt, usuario_input)
             /\ \A k \in 1..Len(nodos) : Contiene(prompt, nodos[k].nombre)
             /\ excepcion.clase = "" =>
                   resultado.val = IF respuesta_llm # <<>> THEN respuesta_llm
                                   ELSE MSG_NO_ENTENDI
        ELSE hist.llm = 0

\* The names of a route, each the name of the node that has the id.
NombresEnOrden(ruta, ns) ==
    [i \in 1..Len(ruta) |->
        (CHOOSE n \in {ns[k] : k \in 1..Len(ns)} : n.id = ruta[i]).nombre]

(***************************************************************************)
(* C3, as stated: once a pair was extracted and the topology loaded, a     *)
(* name that does not resolve to an id gives "places not recognized";      *)
(* otherwise dijkstra runs, and no path gives "no route found", a path     *)
(* gives the narration of its names in order; two nodes in separate        *)
(* components always give "no route found".                                *)
(***************************************************************************)
C3_RamaEstructurada ==
    (pc = "done" /\ origen # None /\ hist.abrir = 1 /\ excepcion.clase = "") =>
        LET io == obtener_id_nodo(origen, nodos)
            idd == obtener_id_nodo(destino, nodos)
        IN  IF io = None \/ idd = None
            THEN resultado.val = MSG_NO_IDENTIFICADO
            ELSE /\ ~Alcanzable(grafo, io, idd) => resultado.val = MSG_NO_RUTA
                 /\ hist.dijkstra = 1
                 /\ IF ruta_ids = NoneRuta
                    THEN resultado.val = MSG_NO_RUTA
                    ELSE resultado.val =
                            generar_descripcion_ruta(NombresEnOrden(ruta_ids, nodos))

====
